---- MODULE Spec2Model ----
(***************************************************************************)
(* Booking scheduling and execution engine of dockerised/estelle:          *)
(* the SQLite system of record (database.py), the Redis mirror             *)
(* (redis_persistence.py), the APScheduler job store and the recovery      *)
(* routine (scheduler.py), the attempt run by the engine                   *)
(* (booking_engine.py) and the HTTP handlers that drive them (api.py).     *)
(*                                                                         *)
(* Time is a line of sampled instants 0..MaxTime.  Even instants 2*d are   *)
(* midnight at the start of day d, odd instants 2*d-1 are the late-evening *)
(* instant of day d-1 (23:40), so datetime.now().hour >= 12 is "now is     *)
(* odd".                                                                   *)
(***************************************************************************)
EXTENDS Integers, FiniteSets, Sequences, TLC

MaxId == 1
MaxDay == 1
MaxHour == 13
MaxMinute == 59
MaxSlots == 2
MaxOffset == 61
MaxRows == 2

MaxTime == 2 * MaxDay
Ids == 1..MaxId
Days == 1..MaxDay
Times == 0..MaxTime

NULL == "NULL"

\* settings.dry_run
dry_run == FALSE
NonTerminal == {"pending", "scheduled"}
Terminal == {"booked", "failed", "cancelled"}

VARIABLES
    now,              \* datetime.now()
    running,          \* the process is up (uvicorn serving, scheduler started)
    rows,             \* SQLite table bookings: id -> row
    nextId,           \* SQLite AUTOINCREMENT sequence of bookings
    logs,             \* SQLite table execution_log, as the set of booking_id of its rows
    docs,             \* Redis keys estelle:booking:<id> -> document
    queue,            \* Redis set estelle:booking_queue
    counter,          \* Redis key estelle:booking:counter
    jobs,             \* APScheduler job store: <<booking id, run_date>>
    attempts,         \* attempts in progress: id -> position in execute_booking
    lost,             \* history: ids of scheduled Bookings whose row went with the host
    arg,              \* input of the function under study (NULL in the program)
    ret               \* its result, once it was applied

vars == <<now, running, rows, nextId, logs, docs, queue, counter, jobs,
          attempts, lost, arg, ret>>

\* The stores and the job store as one value, so that a handler is the
\* composition of the calls it makes.
S == [rows |-> rows, nextId |-> nextId, logs |-> logs, docs |-> docs,
      queue |-> queue, jobs |-> jobs]

Commit(s) ==
    /\ rows' = s.rows
    /\ nextId' = s.nextId
    /\ logs' = s.logs
    /\ docs' = s.docs
    /\ queue' = s.queue
    /\ jobs' = s.jobs

Coalesce(new, old) == IF new = NULL THEN old ELSE new

Without(f, id) == [k \in DOMAIN f \ {id} |-> f[k]]

(***************************************************************************)
(* redis_persistence.py                                                    *)
(***************************************************************************)
\* Fields of a Booking document that can hold None.
OptionalFields == {"time_fallback", "court_name", "booked_time", "error_message", "screenshot_path"}

\* json_dumps that writes None as the text "None".
json_dumps_str(booking) == [k \in DOMAIN booking |-> IF k \in OptionalFields /\ booking[k] = NULL THEN <<"None">> ELSE <<booking[k]>>]

\* json.dumps of a Booking dict: None becomes null (here <<>>), any other
\* value its JSON text (here the value in a 1-tuple).
json_dumps(booking) == [k \in DOMAIN booking |-> IF k \in OptionalFields /\ booking[k] = NULL THEN <<>> ELSE <<booking[k]>>]

json_loads(data) == [k \in DOMAIN data |-> IF data[k] = <<>> THEN NULL ELSE data[k][1]]

save_booking(s, id, booking) ==
    [s EXCEPT !.docs = (id :> json_loads(json_dumps(booking))) @@ s.docs,
              !.queue = IF booking.status \in NonTerminal
                        THEN s.queue \cup {id} ELSE s.queue]

redis_update_booking_status(s, id, status, court_name, booked_time, error_message, screenshot_path) ==
    IF id \notin DOMAIN s.docs
    THEN s
    ELSE LET booking == [s.docs[id] EXCEPT
                 !.status = status,
                 !.court_name = Coalesce(court_name, @),
                 !.booked_time = Coalesce(booked_time, @),
                 !.error_message = Coalesce(error_message, @),
                 !.screenshot_path = Coalesce(screenshot_path, @)]
             saved == save_booking(s, id, booking)
         IN  IF status \notin NonTerminal
             THEN [saved EXCEPT !.queue = @ \ {id}]
             ELSE saved

(***************************************************************************)
(* database.py                                                             *)
(***************************************************************************)
NewRow(booking_date, time_primary, time_fallback, execute_at) ==
    [booking_date |-> booking_date, time_primary |-> time_primary,
     time_fallback |-> time_fallback,
     status |-> "pending", execute_at |-> execute_at,
     court_name |-> NULL, booked_time |-> NULL,
     error_message |-> NULL, screenshot_path |-> NULL]

create_booking(s, booking_date, time_primary, time_fallback, execute_at) ==
    LET id == s.nextId
        inserted == [s EXCEPT !.rows = (id :> NewRow(booking_date, time_primary, time_fallback, execute_at)) @@ s.rows,
                              !.nextId = id + 1]
    IN  save_booking(inserted, id, NewRow(booking_date, time_primary, time_fallback, execute_at))

\* update_booking_status that moves execute_at on with every update.
update_booking_status_touch(s, id, status, court_name, booked_time, error_message, screenshot_path) ==
    IF id \in DOMAIN s.rows
    THEN [s EXCEPT !.rows[id] = [@ EXCEPT !.status = status, !.execute_at = @ + 1]]
    ELSE s

update_booking_status(s, id, status, court_name, booked_time, error_message, screenshot_path) ==
    LET updated ==
          IF id \in DOMAIN s.rows
          THEN [s EXCEPT !.rows[id] = [@ EXCEPT
                   !.status = status,
                   !.court_name = Coalesce(court_name, @),
                   !.booked_time = Coalesce(booked_time, @),
                   !.error_message = error_message,
                   !.screenshot_path = Coalesce(screenshot_path, @)]]
          ELSE s
    IN  redis_update_booking_status(updated, id, status, court_name,
                                    booked_time, error_message, screenshot_path)

get_all_bookings(s, status) == {id \in DOMAIN s.rows : s.rows[id].status = status}

log_execution(s, id, action, result) ==
    [s EXCEPT !.logs = @ \cup {id}]

\* db_delete_booking without the DELETE FROM execution_log.
db_delete_booking_keeplogs(s, id) == [s EXCEPT !.rows = Without(@, id)]

db_delete_booking(s, id) ==
    [s EXCEPT !.logs = {e \in @ : e # id},
              !.rows = Without(@, id)]

(***************************************************************************)
(* scheduler.py                                                            *)
(***************************************************************************)
get_job(s, id) == {j \in s.jobs : j[1] = id}

remove_job(s, id) == [s EXCEPT !.jobs = @ \ get_job(s, id)]

\* schedule_booking that adds the job without replacing the one registered.
schedule_booking_noreplace(s, id, execution_time) ==
    IF id \notin DOMAIN s.rows
    THEN s
    ELSE update_booking_status([s EXCEPT !.jobs = @ \cup {<<id, execution_time>>}],
                               id, "scheduled", NULL, NULL, NULL, NULL)

\* schedule_booking without the lookup of the Booking.
schedule_booking_nolookup(s, id, execution_time) ==
    LET removed == IF get_job(s, id) # {} THEN remove_job(s, id) ELSE s
        added == [removed EXCEPT !.jobs = @ \cup {<<id, execution_time>>}]
    IN  update_booking_status(added, id, "scheduled", NULL, NULL, NULL, NULL)

schedule_booking(s, id, execution_time) ==
    IF id \notin DOMAIN s.rows
    THEN s
    ELSE LET removed == IF get_job(s, id) # {} THEN remove_job(s, id) ELSE s
             added == [removed EXCEPT !.jobs = @ \cup {<<id, execution_time>>}]
         IN  update_booking_status(added, id, "scheduled", NULL, NULL, NULL, NULL)

\* schedule_booking when the write of the status scheduled raises after the
\* job was added: the except branch writes failed with the error's text, and
\* that write is done.
schedule_booking_except(s, id, execution_time) ==
    IF id \notin DOMAIN s.rows
    THEN s
    ELSE LET removed == IF get_job(s, id) # {} THEN remove_job(s, id) ELSE s
             added == [removed EXCEPT !.jobs = @ \cup {<<id, execution_time>>}]
         IN  update_booking_status(added, id, "failed", NULL, NULL, "str(e)", NULL)

\* get_all_bookings orders by execute_at DESC; the loop takes the rows in
\* that order from the list read before the loop.
NextOf(s, ids) ==
    CHOOSE id \in ids : \A o \in ids :
        \/ s.rows[id].execute_at > s.rows[o].execute_at
        \/ s.rows[id].execute_at = s.rows[o].execute_at /\ id <= o

\* reschedule_loop without the test for a passed execution time.
RECURSIVE reschedule_loop_nopast(_, _, _)
reschedule_loop_nopast(s, ids, t) ==
    IF ids = {}
    THEN s
    ELSE LET id == NextOf(s, ids)
         IN  reschedule_loop_nopast(
                 schedule_booking(s, id, s.rows[id].execute_at), ids \ {id}, t)

RECURSIVE reschedule_loop(_, _, _)
reschedule_loop(s, ids, t) ==
    IF ids = {}
    THEN s
    ELSE LET id == NextOf(s, ids)
             execution_time == s.rows[id].execute_at
             step == IF execution_time < t
                     THEN update_booking_status(s, id, "failed", NULL, NULL,
                                                "Execution time passed", NULL)
                     ELSE schedule_booking(s, id, execution_time)
         IN  reschedule_loop(step, ids \ {id}, t)

reschedule_pending_bookings(s, t) ==
    LET pending == get_all_bookings(s, "pending") \cup get_all_bookings(s, "scheduled")
    IN  reschedule_loop(s, pending, t)

\* cancel_booking that leaves the job in the scheduler.
cancel_booking_keepjob(s, id) ==
    IF id \notin DOMAIN s.rows
    THEN s
    ELSE update_booking_status(s, id, "cancelled", NULL, NULL, NULL, NULL)

cancel_booking(s, id) ==
    IF id \notin DOMAIN s.rows
    THEN s
    ELSE LET removed == IF get_job(s, id) # {} THEN remove_job(s, id) ELSE s
         IN  update_booking_status(removed, id, "cancelled", NULL, NULL, NULL, NULL)

delete_booking(s, id) ==
    LET removed == IF get_job(s, id) # {} THEN remove_job(s, id) ELSE s
    IN  db_delete_booking(removed, id)

(***************************************************************************)
(* booking_engine.py: BookingEngine.execute_booking                        *)
(***************************************************************************)
\* A Python str as the sequence of its characters, for the strings the
\* program is given as time phrases.
chars(str) ==
    CASE str = "7pm" -> <<"7", "p", "m">>
      [] str = "8pm" -> <<"8", "p", "m">>
      [] str = " 8pm" -> <<" ", "8", "p", "m">>
      [] str = "19:00" -> <<"1", "9", ":", "0", "0">>
      [] str = "" -> <<>>

Digit == {"0", "1", "2", "3", "4", "5", "6", "7", "8", "9"}

\* int() of one decimal digit.
DigitVal(c) ==
    CASE c = "0" -> 0 [] c = "1" -> 1 [] c = "2" -> 2 [] c = "3" -> 3
      [] c = "4" -> 4 [] c = "5" -> 5 [] c = "6" -> 6 [] c = "7" -> 7
      [] c = "8" -> 8 [] c = "9" -> 9

SetMin(xs) == CHOOSE x \in xs : \A y \in xs : x <= y

SetMax(xs) == CHOOSE x \in xs : \A y \in xs : x >= y

\* str.strip(), with the blank as the only whitespace character.
strip(cs) ==
    LET idx == {i \in 1..Len(cs) : cs[i] # " "}
    IN  IF idx = {} THEN <<>> ELSE SubSeq(cs, SetMin(idx), SetMax(idx))

\* str.lower() on the letters of the alphabet in use.
lower(cs) ==
    [i \in 1..Len(cs) |->
        CASE cs[i] = "A" -> "a" [] cs[i] = "P" -> "p" [] cs[i] = "M" -> "m"
          [] cs[i] = "B" -> "b" [] cs[i] = "O" -> "o" [] cs[i] = "K" -> "k"
          [] cs[i] = "S" -> "s"
          [] OTHER -> cs[i]]

\* The str with the given characters.
text(cs) == CHOOSE str \in {"7pm", "8pm", " 8pm", "19:00", ""} : chars(str) = cs

ValueError == <<"ValueError">>

\* re.match(r'(\d{1,2})(?::(\d{2}))?\s*(am|pm)', time_str): anchored at the
\* start only, greedy; no shorter choice of the groups can match when the
\* greedy one fails.  The result is <<>> for None, or the three groups.
\* cs[i] is a decimal digit.
isd(cs, i) == i <= Len(cs) /\ cs[i] \in Digit

\* The position after \s* from position q on.
skip_blanks(cs, q) ==
    LET rest == {i \in q..Len(cs) : cs[i] # " "}
    IN  IF rest = {} THEN Len(cs) + 1 ELSE SetMin(rest)

\* (am|pm) at position r, and the groups of the match.
match_period(cs, nd, hasmin, r) ==
    IF /\ r + 1 <= Len(cs)
       /\ cs[r] \in {"a", "p"}
       /\ cs[r + 1] = "m"
    THEN <<IF nd = 2 THEN 10 * DigitVal(cs[1]) + DigitVal(cs[2])
                     ELSE DigitVal(cs[1]),
           IF hasmin THEN 10 * DigitVal(cs[nd + 2]) + DigitVal(cs[nd + 3])
                     ELSE 0,
           cs[r]>>
    ELSE <<>>

\* (?::(\d{2}))? after the nd digits of the hour.
match_minute(cs, nd, hasmin) ==
    match_period(cs, nd, hasmin, skip_blanks(cs, IF hasmin THEN nd + 4 ELSE nd + 1))

\* (\d{1,2}) has taken nd digits.
match_hour(cs, nd) ==
    match_minute(cs, nd, nd + 1 <= Len(cs) /\ cs[nd + 1] = ":" /\ isd(cs, nd + 2) /\ isd(cs, nd + 3))

re_match(cs) ==
    IF isd(cs, 1) THEN match_hour(cs, IF isd(cs, 2) THEN 2 ELSE 1) ELSE <<>>

\* The 24-hour hour of the groups of a match.
hour_24(hour, period) ==
    IF period = "p" /\ hour # 12 THEN hour + 12
    ELSE IF period = "a" /\ hour = 12 THEN 0
    ELSE hour

\* The lines of parse_time_to_24hr after the match.
format_match(match) ==
    IF match = <<>> THEN ValueError ELSE <<hour_24(match[1], match[3]), match[2], 0>>

\* The result f"{hour:02d}:{minute:02d}:00" is kept as <<hour, minute, 0>>.
parse_time_to_24hr(time_str) == format_match(re_match(lower(strip(time_str))))

\* One container of the availability page.
Slot(date, hour, minute, court_name, total_booked, total_slots) ==
    [slot_text |-> <<date, hour, minute, 0>>, court_name |-> court_name,
     total_booked |-> total_booked, total_slots |-> total_slots]

\* The containers of the page whose text is the target.
containers_with(avail, full_target) == {i \in 1..Len(avail) : avail[i].slot_text = full_target}

\* check_container without the test total_booked >= total_slots.
check_container_nofull(container) == <<TRUE, IF container.court_name = "" THEN NULL ELSE container.court_name>>

\* The first container whose text is the target: (False, None) when it is
\* full, else it is clicked.
check_container(container) ==
    IF container.total_booked >= container.total_slots
    THEN <<FALSE, NULL>>
    ELSE <<TRUE, IF container.court_name = "" THEN NULL ELSE container.court_name>>

\* The loop over the containers.
search_containers(avail, found) ==
    IF found = {} THEN <<FALSE, NULL>> ELSE check_container(avail[SetMin(found)])

\* The body of find_and_click_time_slot once the target time is parsed.
click_target(avail, booking_date, target_time_24hr) ==
    IF target_time_24hr = ValueError
    THEN <<FALSE, NULL>>
    ELSE search_containers(avail, containers_with(avail, <<booking_date>> \o target_time_24hr))

\* Returns <<success, court_name>>; the first container whose text is the
\* target decides.  An exception inside (the parse error included) is caught.
find_and_click_time_slot(avail, booking_date, time_slot) ==
    click_target(avail, booking_date, parse_time_to_24hr(chars(time_slot)))

\* The result of execute_booking's selection from the result of one try.
selected(tried, time_slot) == [success |-> tried[1], court_name |-> tried[2], booked_time |-> time_slot]

\* if not success and time_fallback: the second try.
try_fallback(first, avail, booking_date, time_primary, time_fallback) ==
    IF first[1] \/ time_fallback \in {NULL, ""}
    THEN selected(first, time_primary)
    ELSE selected(find_and_click_time_slot(avail, booking_date, time_fallback), time_fallback)

\* execute_booking: the primary time first, then the fallback if there is one.
try_time_slots(avail, booking_date, time_primary, time_fallback) ==
    try_fallback(find_and_click_time_slot(avail, booking_date, time_primary), avail, booking_date, time_primary, time_fallback)

(***************************************************************************)
(* scheduler.py: bulk import                                               *)
(***************************************************************************)
\* settings.pre_login_minutes
pre_login_minutes == 10

\* A datetime is <<day, hour, minute>>; a date is its day number, a negative
\* number standing for a text strptime rejects.
\* calculate_execution_time: 15 days before the date, at 23:(60 - minutes);
\* datetime.replace raises ValueError for a minute outside 0..59.
calculate_execution_time(booking_date, minutes_before) ==
    IF booking_date < 0 \/ (60 - minutes_before) \notin 0..59
    THEN ValueError
    ELSE <<booking_date - 15, 23, 60 - minutes_before>>

\* The sampled instant of a datetime: 2*d for midnight of day d, 2*d + 1 for
\* the late evening of day d.
Instant(dt) == IF dt[2] = 0 /\ dt[3] = 0 THEN 2 * dt[1] ELSE 2 * dt[1] + 1

\* One line of the file as csv.DictReader reads it under the header
\* Date,Time1,Time2,Status: a tuple of field values; the status field is a
\* sequence of characters.  An empty line is left out by the reader.
\* k.strip() / v.strip() raise when a line has more or fewer fields than
\* the header (key None, value None).
Malformed(line) == Len(line) \notin {0, 4}

IsBook(line) == Len(line) = 4 /\ lower(strip(line[4])) = <<"b", "o", "o", "k">>

BookingOf(line) ==
    [date |-> line[1],
     time_primary |-> text(strip(chars(line[2]))),
     time_fallback |-> IF text(strip(chars(line[3]))) = "" THEN NULL
                       ELSE text(strip(chars(line[3])))]

RECURSIVE parse_rows(_)
parse_rows(content) ==
    IF content = <<>>
    THEN <<>>
    ELSE IF IsBook(Head(content))
    THEN <<BookingOf(Head(content))>> \o parse_rows(Tail(content))
    ELSE parse_rows(Tail(content))

\* The list of bookings, or the exception that ended the parse.
parse_csv_content(content) ==
    IF \E i \in 1..Len(content) : Malformed(content[i])
    THEN [raised |-> "AttributeError", bookings |-> <<>>]
    ELSE [raised |-> NULL, bookings |-> parse_rows(content)]

\* The loop of add_bookings_from_csv over the parsed rows at instant r.t; r
\* carries the stores and the counters of the summary.
RECURSIVE import_loop(_, _)
import_loop(r, bookings) ==
    IF bookings = <<>>
    THEN r
    ELSE LET booking == Head(bookings)
             execution_time == calculate_execution_time(booking.date, pre_login_minutes)
             id == r.s.nextId
         IN  import_loop(
                 IF execution_time = ValueError
                 THEN [r EXCEPT !.errors = @ + 1]
                 ELSE IF Instant(execution_time) < r.t
                 THEN [r EXCEPT !.skipped = @ + 1]
                 ELSE [r EXCEPT !.added = @ + 1,
                                !.s = schedule_booking(
                                        create_booking(r.s, booking.date,
                                            booking.time_primary, booking.time_fallback,
                                            Instant(execution_time)),
                                        id, Instant(execution_time))],
                 Tail(bookings))

\* The result of add_bookings_from_csv: the stores and the summary, or raised
\* (the API answers 400) with the stores as they were.
add_bookings_from_csv(s, content, t) ==
    LET parsed == parse_csv_content(content)
    IN  IF parsed.raised # NULL
        THEN [s |-> s, t |-> t, raised |-> TRUE, added |-> 0, skipped |-> 0,
              errors |-> 0, total_processed |-> 0]
        ELSE import_loop([s |-> s, t |-> t, raised |-> FALSE, added |-> 0,
                          skipped |-> 0, errors |-> 0,
                          total_processed |-> Len(parsed.bookings)],
                         parsed.bookings)

(***************************************************************************)
(* booking_engine.py: the attempt                                          *)
(***************************************************************************)
Attempt(pc, wake, court, btime, final) ==
    [pc |-> pc, wake |-> wake, court |-> court, btime |-> btime, final |-> final]

\* str(e) of the exception caught by execute_booking; the text plays no part
\* in what the engine does next, so one value stands for every message.
error_msg == "str(e)"

\* The except branch of execute_booking up to its first await.
handle_exception(s, id) ==
    log_execution(update_booking_status(s, id, "failed", NULL, NULL, error_msg, NULL),
                  id, "booking", "error")

\* The except branch of _execute_booking_wrapper: one status write.
wrapper_except(s, id) == update_booking_status(s, id, "failed", NULL, NULL, error_msg, NULL)

\* send_message that turns a delivery failure into the status failed.
send_message_escalating(s, id, delivered) == IF delivered THEN s ELSE wrapper_except(s, id)

\* DiscordNotifier.send_message for the Booking's notification: a delivery
\* failure is caught and logged, the result (True or False) is dropped by
\* booking_success, booking_failed and booking_unavailable.
send_message(s, id, delivered) == s

\* The synchronous head of execute_booking: the first log entry.
start_attempt(s, id) == log_execution(s, id, "start", "initiated")

\* datetime.now().hour >= 12: the next midnight is ahead; otherwise today's
\* midnight has passed.
midnight(t) == IF t % 2 = 1 THEN t + 1 ELSE t

IsPending(id) == id \in DOMAIN attempts

At(id, pc) == IsPending(id) /\ attempts[id].pc = pc

Finish(id) == attempts' = Without(attempts, id)

\* The arguments execute_booking was called with stay with the attempt, and
\* so does its caller: the timer callback (wrapped) or POST /test/booking.
Goto(id, a) ==
    attempts' = (id :> (a @@ [booking_date |-> attempts[id].booking_date,
                              time_primary |-> attempts[id].time_primary,
                              time_fallback |-> attempts[id].time_fallback,
                              wrapped |-> attempts[id].wrapped,
                              sent |-> attempts[id].sent])) @@ attempts

\* The attempt record a once the notifier was called for an outcome of the
\* given kind: booking_success, booking_failed or booking_unavailable.
Told(id, a, kind) == a @@ [sent |-> Append(attempts[id].sent, kind)]

\* execute_booking(booking_id, booking_date, time_primary, time_fallback) is
\* entered.
Begin(id, booking, wrapped) ==
    attempts' = (id :> (Attempt("login", 0, NULL, NULL, NULL)
                        @@ [booking_date |-> booking.booking_date,
                            time_primary |-> booking.time_primary,
                            time_fallback |-> booking.time_fallback,
                            wrapped |-> wrapped,
                            sent |-> <<>>])) @@ attempts

\* The variables of the function under study are not the program's.
Idle == UNCHANGED <<arg, ret>>

\* No handler of the service reads or writes the counter key.
Hist == UNCHANGED <<lost, counter>> /\ Idle

Env == UNCHANGED <<now, running>>

\* How many of the status writes of the except branches raise (sqlite3
\* errors): 0 none; 1 the write in execute_booking's except branch; 2 also
\* the write in _execute_booking_wrapper's except branch.
Failing == {0, 1, 2}

\* An exception leaves execute_booking in stores s: the wrapper's except
\* branch writes failed, unless that write raises too and the error leaves
\* the callback; POST /test/booking answers 500 and writes nothing.
Escaped(s, id, failing) ==
    /\ Commit(IF attempts[id].wrapped /\ failing < 2 THEN wrapper_except(s, id) ELSE s)
    /\ Finish(id)

\* An exception is raised inside the try block in stores s; page tells
\* whether the page was opened.  The except branch writes failed, logs and
\* notifies, then takes the screenshot if there is a page.
Raised(s, id, page, failing, delivered) ==
    IF failing = 0
    THEN /\ Commit(send_message(handle_exception(s, id), id, delivered))
         /\ Goto(id, Told(id, Attempt("error_shot", 0, NULL, NULL, "failed") @@ [page |-> page],
                          "failure"))
    ELSE Escaped(s, id, failing)

\* A login step that goes on to prepare_booking_page after a failed login.
Login_continue(id, outcome, failing, delivered) ==
    /\ running /\ At(id, "login")
    /\ Commit(IF outcome = "ok" THEN log_execution(S, id, "login", "success")
              ELSE handle_exception(S, id))
    /\ Goto(id, Attempt("prepare", 0, NULL, NULL, NULL))
    /\ Env /\ Hist

\* get_context / new_page raise (page is None), login returns False, or
\* login succeeds.
Login(id, outcome, failing, delivered) ==
    /\ running /\ At(id, "login")
    /\ CASE outcome = "raise" -> Raised(S, id, FALSE, failing, delivered)
         [] outcome = "fail" -> Raised(S, id, TRUE, failing, delivered)
         [] outcome = "ok" ->
              /\ Commit(log_execution(S, id, "login", "success"))
              /\ Goto(id, Attempt("prepare", 0, NULL, NULL, NULL))
    /\ Env /\ Hist

\* prepare_booking_page, then the computation of the midnight to wait for.
Prepare(id, ok, failing, delivered) ==
    /\ running /\ At(id, "prepare")
    /\ IF ok
       THEN /\ Commit(log_execution(S, id, "prepare_page", "success"))
            /\ Goto(id, Attempt("barrier", midnight(now), NULL, NULL, NULL))
       ELSE Raised(S, id, TRUE, failing, delivered)
    /\ Env /\ Hist

\* After the sleep: click "Show Availability" (the click can raise), then try
\* the primary and the fallback time on the page that came back.
AfterAvailability(id, clicked, tried, failing, delivered) ==
    IF ~clicked
    THEN Raised(S, id, TRUE, failing, delivered)
    ELSE IF ~tried.success
    THEN /\ Commit(send_message(
                log_execution(
                    update_booking_status(
                        log_execution(S, id, "show_availability", "clicked"),
                        id, "failed", NULL, NULL, "No availability", NULL),
                    id, "booking", "failed"),
                id, delivered))
         /\ Goto(id, Told(id, Attempt("shot", 0, NULL, NULL, "failed"), "unavailable"))
    ELSE /\ Commit(log_execution(S, id, "show_availability", "clicked"))
         /\ Goto(id, Attempt("verify", 0, tried.court_name, tried.booked_time, NULL))

ShowAvailability(id, clicked, avail, failing, delivered) ==
    /\ running /\ At(id, "barrier")
    /\ now >= attempts[id].wake
    /\ AfterAvailability(id, clicked,
                         try_time_slots(avail, attempts[id].booking_date,
                                        attempts[id].time_primary,
                                        attempts[id].time_fallback),
                         failing, delivered)
    /\ Env /\ Hist

\* The status write of the confirmed branch.
write_booked(s, id) ==
    update_booking_status(s, id, "booked", attempts[id].court, attempts[id].btime, NULL, NULL)

\* The local variable `confirmed` of execute_booking, live from
\* verify_confirmation to the end of the try block.
Seen(a, confirmed) == a @@ [confirmed |-> confirmed]

\* verify_confirmation, then the branch on `confirmed or settings.dry_run`
\* (dry).  In the confirmed branch the status write is followed by the log
\* entry, which is written (wrote) or raises; then the notification.
Verify(id, confirmed, dry, wrote, failing, delivered) ==
    /\ running /\ At(id, "verify")
    /\ IF confirmed \/ dry
       THEN IF wrote
            THEN /\ Commit(send_message(
                        log_execution(write_booked(S, id), id, "booking", "success"),
                        id, delivered))
                 /\ Goto(id, Seen(Told(id, Attempt("shot", 0, NULL, NULL, "booked"), "success"), confirmed))
            ELSE Raised(write_booked(S, id), id, TRUE, failing, delivered)
       ELSE /\ Commit(send_message(
                   log_execution(
                       update_booking_status(S, id, "failed", NULL, NULL,
                                             "Could not verify confirmation", NULL),
                       id, "verify", "failed"),
                   id, delivered))
            /\ Goto(id, Seen(Told(id, Attempt("shot", 0, NULL, NULL, "failed"), "failure"), confirmed))
    /\ Env /\ Hist

\* The status write that follows a screenshot.
write_screenshot(s, id) ==
    update_booking_status(s, id, attempts[id].final, NULL, NULL, NULL, "screenshot")

\* take_screenshot inside the try block returns a path or None; with a path
\* the status is written again together with the path, and that write is
\* done (wrote) or raises.
Screenshot(id, got, wrote, failing, delivered) ==
    /\ running /\ At(id, "shot")
    /\ IF ~got
       THEN Commit(S) /\ Finish(id)
       ELSE IF wrote
       THEN Commit(write_screenshot(S, id)) /\ Finish(id)
       ELSE Raised(S, id, TRUE, failing, delivered)
    /\ Env /\ Hist

\* After booking_failed in the except branch: take_screenshot if there is a
\* page; a write that raises there leaves execute_booking.
ErrorScreenshot(id, got, wrote, failing) ==
    /\ running /\ At(id, "error_shot")
    /\ got => attempts[id].page
    /\ IF ~got
       THEN Commit(S) /\ Finish(id)
       ELSE IF wrote
       THEN Commit(write_screenshot(S, id)) /\ Finish(id)
       ELSE Escaped(S, id, failing)
    /\ Env /\ Hist

(***************************************************************************)
(* api.py handlers, the timer callback and the process life cycle          *)
(***************************************************************************)
\* POST /bookings: 23:40 on the day before booking_date.
execute_dt(day) == 2 * day - 1

\* The same as a datetime.
execute_dt_at(day) == <<day - 1, 23, 40>>

ApiCreateBooking(day, time_primary, time_fallback) ==
    /\ running
    /\ nextId <= MaxId
    /\ Commit(schedule_booking(
           create_booking(S, day, time_primary, time_fallback, execute_dt(day)),
           nextId, execute_dt(day)))
    /\ UNCHANGED attempts
    /\ Env /\ Hist

\* POST /test/booking: the row is created with execute_at = utcnow() and the
\* attempt is awaited by the handler, without a timer.
ApiTestBooking(day, time_primary, time_fallback) ==
    /\ running
    /\ nextId <= MaxId
    /\ Commit(start_attempt(
           create_booking(S, day, time_primary, time_fallback, now), nextId))
    /\ Begin(nextId, NewRow(day, time_primary, time_fallback, now), FALSE)
    /\ Env /\ Hist

ApiCancelBooking(id) ==
    /\ running
    /\ Commit(cancel_booking(S, id))
    /\ UNCHANGED attempts
    /\ Env /\ Hist

ApiDeleteBooking(id) ==
    /\ running
    /\ Commit(delete_booking(S, id))
    /\ lost' = lost \ {id}
    /\ UNCHANGED counter
    /\ UNCHANGED attempts
    /\ Env /\ Idle

\* HTTP status of GET /bookings/{id}.
get_booking_response(s, id) == IF id \in DOMAIN s.rows THEN 200 ELSE 404

\* HTTP status of POST /bookings/{id}/cancel: 404 when cancel_booking
\* returns False.
cancel_booking_response(s, id) == IF id \in DOMAIN s.rows THEN 200 ELSE 404

\* BookingScheduler.delete_booking returns True whenever nothing raised; it
\* does not look the Booking up.
delete_booking_returns(s, id) == TRUE

\* HTTP status of DELETE /bookings/{id}.
delete_booking_response(s, id) == IF delete_booking_returns(s, id) THEN 200 ELSE 404

\* APScheduler runs a DateTrigger job once its run_date is reached and drops
\* it from the job store; the callback is _execute_booking_wrapper.
TimerFire(id) ==
    /\ running
    /\ ~IsPending(id)
    /\ \E j \in get_job(S, id) :
          /\ j[2] <= now
          /\ LET fired == [S EXCEPT !.jobs = @ \ {j}]
             IN  IF id \notin DOMAIN rows
                 THEN Commit(fired) /\ UNCHANGED attempts
                 ELSE /\ Commit(start_attempt(fired, id))
                      /\ Begin(id, rows[id], TRUE)
    /\ Env /\ Hist

\* The process stops: the job store and the running attempts live in its
\* memory.  With scale-to-zero the SQLite file goes with the host.
Shutdown(lose) ==
    /\ running
    /\ running' = FALSE
    /\ jobs' = {}
    /\ attempts' = <<>>
    /\ IF lose
       THEN /\ rows' = <<>> /\ logs' = {} /\ nextId' = 1
            /\ lost' = lost \cup get_all_bookings(S, "scheduled")
       ELSE UNCHANGED <<rows, logs, nextId, lost>>
    /\ UNCHANGED <<now, docs, queue, counter>>
    /\ Idle

\* startup_event; the process comes up at a later instant than it went down.
Startup ==
    /\ ~running
    /\ now < MaxTime
    /\ now' = now + 1
    /\ running' = TRUE
    /\ Commit(reschedule_pending_bookings(S, now + 1))
    /\ UNCHANGED attempts
    /\ Hist

Tick ==
    /\ now < MaxTime
    /\ now' = now + 1
    /\ UNCHANGED <<running, rows, nextId, logs, docs, queue, jobs, attempts>>
    /\ Hist

\* A direct call of BookingScheduler.schedule_booking(booking_id, execution_time).
ScheduleBooking(id, execution_time) ==
    /\ running
    /\ Commit(schedule_booking(S, id, execution_time))
    /\ UNCHANGED attempts
    /\ Env /\ Hist

\* A direct call of Database.create_booking: the row is pending and has no
\* timer yet.
CreateBooking(day, time_primary, time_fallback) ==
    /\ running
    /\ nextId <= MaxId
    /\ Commit(create_booking(S, day, time_primary, time_fallback, execute_dt(day)))
    /\ UNCHANGED attempts
    /\ Env /\ Hist

\* POST /bookings/upload; a file that would need more ids than the model
\* has is not uploaded.  arg keeps the file and ret the answer: the summary,
\* or raised (HTTP 400).
AddBookingsFromCsv(content) ==
    /\ running
    /\ Cardinality({i \in 1..Len(content) : IsBook(content[i])}) <= MaxId + 1 - nextId
    /\ LET r == add_bookings_from_csv(S, content, now)
       IN  /\ Commit(r.s)
           /\ arg' = <<content>>
           /\ ret' = <<[raised |-> r.raised, added |-> r.added, skipped |-> r.skipped,
                        errors |-> r.errors, total_processed |-> r.total_processed]>>
    /\ UNCHANGED <<attempts, lost, counter>>
    /\ Env

\* A direct call of BookingScheduler.reschedule_pending_bookings().
ReschedulePendingBookings ==
    /\ running
    /\ Commit(reschedule_pending_bookings(S, now))
    /\ UNCHANGED attempts
    /\ Env /\ Hist

\* The program after construction: empty stores, scheduler started.
Constructed ==
    /\ now = 0
    /\ running = TRUE
    /\ rows = <<>>
    /\ nextId = 1
    /\ logs = {}
    /\ docs = <<>>
    /\ queue = {}
    /\ counter = 0
    /\ jobs = {}
    /\ attempts = <<>>
    /\ lost = {}

Init ==
    /\ Constructed
    /\ arg = <<>>
    /\ ret = <<>>

\* What the availability page can show for a date: no container, one for
\* 19:00 or 20:00, or one for each in that order, each free or full.
Containers(date) == {Slot(date, h, 0, "Court 1", b, 1) : h \in {19, 20}, b \in {0, 1}}

Pages(date) == {<<>>} \cup {<<c>> : c \in Containers(date)} \cup {<<c, d>> : c \in {Slot(date, 19, 0, "Court 1", b, 1) : b \in {0, 1}}, d \in {Slot(date, 20, 0, "Court 1", b, 1) : b \in {0, 1}}}

\* The service in its default configuration (dry_run off), with storage that
\* accepts every write of an attempt.
Next ==
    \/ \E day \in Days : ApiCreateBooking(day, "7pm", "8pm")
    \/ \E id \in Ids : ApiCancelBooking(id)
    \/ \E id \in Ids : ApiDeleteBooking(id)
    \/ \E id \in Ids : TimerFire(id)
    \/ \E id \in Ids, outcome \in {"raise", "fail", "ok"}, delivered \in BOOLEAN :
          Login(id, outcome, 0, delivered)
    \/ \E id \in Ids, ok \in BOOLEAN, delivered \in BOOLEAN : Prepare(id, ok, 0, delivered)
    \/ \E id \in Ids, clicked \in BOOLEAN, delivered \in BOOLEAN :
          \E avail \in Pages(IF IsPending(id) THEN attempts[id].booking_date ELSE 0) :
             ShowAvailability(id, clicked, avail, 0, delivered)
    \/ \E id \in Ids, confirmed \in BOOLEAN, delivered \in BOOLEAN :
          Verify(id, confirmed, dry_run, TRUE, 0, delivered)
    \/ \E id \in Ids, got \in BOOLEAN : Screenshot(id, got, TRUE, 0, TRUE)
    \/ \E id \in Ids, got \in BOOLEAN : ErrorScreenshot(id, got, TRUE, 0)
    \/ \E lose \in BOOLEAN : Shutdown(lose)
    \/ Startup
    \/ Tick

Spec == Init /\ [][Next]_vars

\* With the debug endpoint POST /test/booking.
NextTest ==
    \/ Next
    \/ \E day \in Days : ApiTestBooking(day, "7pm", "8pm")

SpecTest == Init /\ [][NextTest]_vars

\* The availability page of an attempt: empty, or the primary hour free or
\* full.
AttemptPages(date) == {<<>>} \cup {<<Slot(date, 19, 0, "Court 1", b, 1)>> : b \in {0, 1}}

\* The attempts of the timer callback in either configuration (dry_run off
\* or on), with status and log writes that can raise and notifications that
\* can fail to be delivered.
NextAttempt ==
    \/ \E day \in Days : ApiCreateBooking(day, "7pm", "8pm")
    \/ \E id \in Ids : ApiCancelBooking(id)
    \/ \E id \in Ids : ApiDeleteBooking(id)
    \/ \E id \in Ids : TimerFire(id)
    \/ \E id \in Ids, outcome \in {"raise", "fail", "ok"}, failing \in Failing, delivered \in BOOLEAN :
          Login(id, outcome, failing, delivered)
    \/ \E id \in Ids, ok \in BOOLEAN, failing \in Failing, delivered \in BOOLEAN :
          Prepare(id, ok, failing, delivered)
    \/ \E id \in Ids, clicked \in BOOLEAN, failing \in Failing, delivered \in BOOLEAN :
          \E avail \in AttemptPages(IF IsPending(id) THEN attempts[id].booking_date ELSE 0) :
             ShowAvailability(id, clicked, avail, failing, delivered)
    \/ \E id \in Ids, confirmed \in BOOLEAN, dry \in BOOLEAN, wrote \in BOOLEAN :
          \E failing \in Failing, delivered \in BOOLEAN :
             Verify(id, confirmed, dry, wrote, failing, delivered)
    \/ \E id \in Ids, got \in BOOLEAN, wrote \in BOOLEAN, failing \in Failing, delivered \in BOOLEAN :
          Screenshot(id, got, wrote, failing, delivered)
    \/ \E id \in Ids, got \in BOOLEAN, wrote \in BOOLEAN, failing \in Failing :
          ErrorScreenshot(id, got, wrote, failing)
    \/ Tick

SpecAttempt == Init /\ [][NextAttempt]_vars

\* The clock of an attempt that is still under way after the last sampled
\* midnight: it goes on to the evening of that day.
TickLate ==
    /\ now <= MaxTime
    /\ now' = now + 1
    /\ UNCHANGED <<running, rows, nextId, logs, docs, queue, jobs, attempts>>
    /\ Hist

\* The service in its default configuration, observed until the evening
\* after the last midnight.
NextBarrier ==
    \/ \E day \in Days : ApiCreateBooking(day, "7pm", "8pm")
    \/ \E id \in Ids : ApiCancelBooking(id)
    \/ \E id \in Ids : ApiDeleteBooking(id)
    \/ \E id \in Ids : TimerFire(id)
    \/ \E id \in Ids, outcome \in {"raise", "fail", "ok"} : Login(id, outcome, 0, TRUE)
    \/ \E id \in Ids, ok \in BOOLEAN : Prepare(id, ok, 0, TRUE)
    \/ \E id \in Ids, clicked \in BOOLEAN :
          \E avail \in AttemptPages(IF IsPending(id) THEN attempts[id].booking_date ELSE 0) :
             ShowAvailability(id, clicked, avail, 0, TRUE)
    \/ \E id \in Ids, confirmed \in BOOLEAN : Verify(id, confirmed, dry_run, TRUE, 0, TRUE)
    \/ \E id \in Ids, got \in BOOLEAN : Screenshot(id, got, TRUE, 0, TRUE)
    \/ \E id \in Ids, got \in BOOLEAN : ErrorScreenshot(id, got, TRUE, 0)
    \/ TickLate

SpecBarrier == Init /\ [][NextBarrier]_vars

\* The stores of a new process.
Empty == [rows |-> <<>>, nextId |-> 1, logs |-> {}, docs |-> <<>>, queue |-> {}, jobs |-> {}]

\* What POST /bookings does to the stores and the job store.
post_booking(s, day, time_primary, time_fallback) ==
    schedule_booking(create_booking(s, day, time_primary, time_fallback, execute_dt(day)),
                     s.nextId, execute_dt(day))

\* The two Bookings of a process that has answered two POST /bookings.
Pair == {1, 2}

\* After POST /bookings for 7pm and for 8pm of the same day or of two days.
InitPair ==
    /\ now = 0
    /\ running = TRUE
    /\ \E d1 \in Days, d2 \in Days :
          /\ rows = post_booking(post_booking(Empty, d1, "7pm", NULL), d2, "8pm", NULL).rows
          /\ nextId = post_booking(post_booking(Empty, d1, "7pm", NULL), d2, "8pm", NULL).nextId
          /\ logs = post_booking(post_booking(Empty, d1, "7pm", NULL), d2, "8pm", NULL).logs
          /\ docs = post_booking(post_booking(Empty, d1, "7pm", NULL), d2, "8pm", NULL).docs
          /\ queue = post_booking(post_booking(Empty, d1, "7pm", NULL), d2, "8pm", NULL).queue
          /\ jobs = post_booking(post_booking(Empty, d1, "7pm", NULL), d2, "8pm", NULL).jobs
    /\ counter = 0
    /\ attempts = <<>>
    /\ lost = {}
    /\ arg = <<>>
    /\ ret = <<>>

\* The timers and attempts of two Bookings in one process: the callbacks are
\* coroutines on one event loop and every await lets the other one run.
NextPair ==
    \/ \E id \in Pair : TimerFire(id)
    \/ \E id \in Pair, outcome \in {"raise", "fail", "ok"} : Login(id, outcome, 0, TRUE)
    \/ \E id \in Pair, ok \in BOOLEAN : Prepare(id, ok, 0, TRUE)
    \/ \E id \in Pair, clicked \in BOOLEAN :
          \E avail \in AttemptPages(IF IsPending(id) THEN attempts[id].booking_date ELSE 0) :
             ShowAvailability(id, clicked, avail, 0, TRUE)
    \/ \E id \in Pair, confirmed \in BOOLEAN : Verify(id, confirmed, dry_run, TRUE, 0, TRUE)
    \/ \E id \in Pair, got \in BOOLEAN : Screenshot(id, got, TRUE, 0, TRUE)
    \/ \E id \in Pair, got \in BOOLEAN : ErrorScreenshot(id, got, TRUE, 0)
    \/ Tick

SpecPair == InitPair /\ [][NextPair]_vars

\* add_booking_to_redis.py: 23:50 on the day before booking_date.
offline_execute_dt_at(day) == <<day - 1, 23, 50>>

\* The same as an instant: the evening before the day.
offline_execute_dt(day) == 2 * day - 1

\* add_booking_to_redis.py run from a shell, with the service up or scaled
\* to zero: the id is INCR of the counter key, the document is SET under that
\* id and the id is added to the queue.  The keys the script leaves out read
\* as None.
AddBookingToRedis(day, time_primary, time_fallback) ==
    /\ counter < MaxId
    /\ counter' = counter + 1
    /\ docs' = ((counter + 1) :> json_loads(json_dumps(
                    NewRow(day, time_primary, time_fallback, offline_execute_dt(day))))) @@ docs
    /\ queue' = queue \cup {counter + 1}
    /\ UNCHANGED <<rows, nextId, logs, jobs, attempts, lost>>
    /\ Env /\ Idle

\* The service and the offline script side by side, over restarts.
NextOffline ==
    \/ \E day \in Days : ApiCreateBooking(day, "7pm", "8pm")
    \/ \E day \in Days : AddBookingToRedis(day, "8pm", NULL)
    \/ \E id \in Ids : ApiCancelBooking(id)
    \/ \E id \in Ids : ApiDeleteBooking(id)
    \/ \E lose \in BOOLEAN : Shutdown(lose)
    \/ Startup
    \/ Tick

SpecOffline == Init /\ [][NextOffline]_vars

\* POST /bookings during which SQLite refuses the write of the status
\* scheduled (sqlite3.OperationalError) and accepts the one that follows.
ApiCreateBookingWriteFails(day, time_primary, time_fallback) ==
    /\ running
    /\ nextId <= MaxId
    /\ Commit(schedule_booking_except(
           create_booking(S, day, time_primary, time_fallback, execute_dt(day)),
           nextId, execute_dt(day)))
    /\ UNCHANGED attempts
    /\ Env /\ Hist

\* The service with a status write that can fail while a Booking is being
\* scheduled.
NextWriteFails ==
    \/ Next
    \/ \E day \in Days : ApiCreateBookingWriteFails(day, "7pm", "8pm")

SpecWriteFails == Init /\ [][NextWriteFails]_vars

\* cancel_booking when the connection to Redis drops between the SET of the
\* document and the SREM of the id: RedisBookingStore.update_booking_status
\* catches the error and returns False, the id stays in the queue.
cancel_booking_srem_fails(s, id) == [cancel_booking(s, id) EXCEPT !.queue = s.queue]

\* POST /bookings/{id}/cancel with that failure.
ApiCancelBookingSremFails(id) ==
    /\ running
    /\ Commit(cancel_booking_srem_fails(S, id))
    /\ UNCHANGED attempts
    /\ Env /\ Hist

\* The service with a Redis command that can fail during a cancel.
NextSremFails ==
    \/ Next
    \/ \E id \in Ids : ApiCancelBookingSremFails(id)

SpecSremFails == Init /\ [][NextSremFails]_vars

\* The operations of BookingScheduler on the stores and the job store, with
\* create_booking, schedule_booking and reschedule_pending_bookings called
\* directly, over process restarts.
NextSched ==
    \/ \E day \in Days : ApiCreateBooking(day, "7pm", "8pm")
    \/ \E day \in Days : CreateBooking(day, "7pm", "8pm")
    \/ \E id \in Ids, t \in Times : ScheduleBooking(id, t)
    \/ ReschedulePendingBookings
    \/ \E id \in Ids : ApiCancelBooking(id)
    \/ \E id \in Ids : ApiDeleteBooking(id)
    \/ \E lose \in BOOLEAN : Shutdown(lose)
    \/ Startup
    \/ Tick

SpecSched == Init /\ [][NextSched]_vars

(***************************************************************************)
(* Functions studied on their own: the input is drawn at the start and the *)
(* function is applied to it once.                                         *)
(***************************************************************************)
Program == <<now, running, rows, nextId, logs, docs, queue, counter, jobs, attempts, lost>>

\* str() of one decimal digit.
DigitChar(n) ==
    CASE n = 0 -> "0" [] n = 1 -> "1" [] n = 2 -> "2" [] n = 3 -> "3"
      [] n = 4 -> "4" [] n = 5 -> "5" [] n = 6 -> "6" [] n = 7 -> "7"
      [] n = 8 -> "8" [] n = 9 -> "9"

\* Decimal text of a number below 100, without padding.
NumberText(n) == IF n < 10 THEN <<DigitChar(n)>> ELSE <<DigitChar(n \div 10), DigitChar(n % 10)>>

\* A time phrase as typed: hour, optional ":mm", optional am/pm, optional
\* trailing character.  minute = -1 stands for no minutes.
PhraseText(hour, minute, period, trail) ==
    NumberText(hour)
    \o (IF minute < 0 THEN <<>>
        ELSE <<":", DigitChar(minute \div 10), DigitChar(minute % 10)>>)
    \o (IF period = "" THEN <<>> ELSE IF period = "am" THEN <<"a", "m">> ELSE <<"p", "m">>)
    \o (IF trail = "" THEN <<>> ELSE <<trail>>)

TimePhraseInputs ==
    {[hour |-> h, minute |-> m, period |-> p, trail |-> t,
      text |-> PhraseText(h, m, p, t)] :
        h \in 0..MaxHour, m \in -1..MaxMinute, p \in {"am", "pm", ""}, t \in {"", "x"}}

InitParse ==
    /\ Constructed
    /\ arg \in {<<i>> : i \in TimePhraseInputs}
    /\ ret = <<>>

ParseTime ==
    /\ ret = <<>>
    /\ ret' = <<parse_time_to_24hr(arg[1].text)>>
    /\ UNCHANGED <<Program, arg>>

SpecParse == InitParse /\ [][ParseTime]_vars

(***************************************************************************)
(* calendar_utils.py: CalendarInviteGenerator.parse_time_to_datetime       *)
(***************************************************************************)
\* 'am' in time_str, 'pm' in time_str: the two characters next to each other.
contains(cs, a, b) == \E i \in 1..(Len(cs) - 1) : cs[i] = a /\ cs[i + 1] = b

\* time_str.replace('am', ''): every occurrence found from the left is
\* taken out.
RECURSIVE replace(_, _, _)
replace(cs, a, b) ==
    IF Len(cs) < 2 THEN cs
    ELSE IF cs[1] = a /\ cs[2] = b THEN replace(SubSeq(cs, 3, Len(cs)), a, b)
    ELSE <<cs[1]>> \o replace(Tail(cs), a, b)

\* int() takes decimal digits with blanks around them and raises ValueError
\* for anything else, the empty string included.
is_int(cs) == strip(cs) # <<>> /\ \A i \in 1..Len(strip(cs)) : strip(cs)[i] \in Digit

RECURSIVE decimal(_)
decimal(ds) ==
    IF ds = <<>> THEN 0
    ELSE 10 * decimal(SubSeq(ds, 1, Len(ds) - 1)) + DigitVal(ds[Len(ds)])

int(cs) == decimal(strip(cs))

\* The conversion to the 24-hour hour of parse_time_to_datetime.
calendar_hour_24(is_pm, hour) ==
    IF is_pm /\ hour # 12 THEN hour + 12
    ELSE IF ~is_pm /\ hour = 12 THEN 0
    ELSE hour

\* The validation of hour and minute, and the datetime of the date.
calendar_combine(booking_date, hour, minute) ==
    IF hour \notin 0..23 \/ minute \notin 0..59 THEN ValueError
    ELSE <<booking_date, hour, minute>>

\* hour_str, minute_str = time_str.split(':') raises ValueError unless the
\* string has exactly one colon; colons is the set of their positions.
calendar_split(booking_date, is_pm, cs, colons, at) ==
    IF /\ Cardinality(colons) = 1
       /\ is_int(SubSeq(cs, 1, at - 1))
       /\ is_int(SubSeq(cs, at + 1, Len(cs)))
    THEN calendar_combine(booking_date,
                          calendar_hour_24(is_pm, int(SubSeq(cs, 1, at - 1))),
                          int(SubSeq(cs, at + 1, Len(cs))))
    ELSE ValueError

calendar_hour_minute(booking_date, is_pm, cs) ==
    IF \E i \in 1..Len(cs) : cs[i] = ":"
    THEN calendar_split(booking_date, is_pm, cs,
                        {i \in 1..Len(cs) : cs[i] = ":"},
                        SetMin({i \in 1..Len(cs) : cs[i] = ":"}))
    ELSE IF is_int(cs)
    THEN calendar_combine(booking_date, calendar_hour_24(is_pm, int(cs)), 0)
    ELSE ValueError

calendar_period(booking_date, cs) ==
    IF contains(cs, "a", "m") \/ contains(cs, "p", "m")
    THEN calendar_hour_minute(booking_date, contains(cs, "p", "m"),
                              strip(replace(replace(cs, "a", "m"), "p", "m")))
    ELSE ValueError

\* The datetime is kept as <<date, hour, minute>>; every error of the body
\* is raised again as ValueError.
parse_time_to_datetime(booking_date, booking_time) ==
    calendar_period(booking_date, strip(lower(booking_time)))

\* Both parsers applied to one time phrase, for a Booking of day 1.
ParseBoth ==
    /\ ret = <<>>
    /\ ret' = <<parse_time_to_24hr(arg[1].text),
                parse_time_to_datetime(1, arg[1].text)>>
    /\ UNCHANGED <<Program, arg>>

SpecParseBoth == InitParse /\ [][ParseBoth]_vars

CalcInputs ==
    {[path |-> p, date |-> d, offset |-> o] :
        p \in {"import", "api"}, d \in 15..(15 + MaxDay), o \in 0..MaxOffset}

InitCalc ==
    /\ Constructed
    /\ arg \in {<<i>> : i \in CalcInputs}
    /\ ret = <<>>

\* The execution time as the import computes it under the configured offset,
\* or as POST /bookings computes it.
ComputeExecuteAt ==
    /\ ret = <<>>
    /\ ret' = <<IF arg[1].path = "import"
                THEN calculate_execution_time(arg[1].date, arg[1].offset)
                ELSE execute_dt_at(arg[1].date)>>
    /\ UNCHANGED <<Program, arg>>

SpecCalc == InitCalc /\ [][ComputeExecuteAt]_vars

\* The three ways a Booking comes in, each with its own computation of the
\* execution time: POST /bookings, the import of the CSV file, and the script
\* that writes a Booking into the mirror.
InitIntake ==
    /\ Constructed
    /\ arg \in {<<[date |-> d, offset |-> o]>> :
                   d \in 15..(15 + MaxDay), o \in 0..MaxOffset}
    /\ ret = <<>>

\* The execution time one intake path gives the Booking date of the input;
\* only the import reads settings.pre_login_minutes.
ExecuteAtBy(path, date, offset) ==
    CASE path = "api" -> execute_dt_at(date)
      [] path = "import" -> calculate_execution_time(date, offset)
      [] path = "offline" -> offline_execute_dt_at(date)

Intake(path) ==
    /\ ret = <<>>
    /\ ret' = <<path, ExecuteAtBy(path, arg[1].date, arg[1].offset)>>
    /\ UNCHANGED <<Program, arg>>

SpecIntake ==
    InitIntake /\ [][\E path \in {"api", "import", "offline"} : Intake(path)]_vars

\* Containers of an availability page for the Booking date 1: three labels
\* (19:00 and 20:00 of that date, 19:00 of the next), each free, full, or
\* half taken.
SlotInputs == {Slot(l[1], l[2], 0, l[3], c[1], c[2]) : l \in {<<1, 19, "Court 1">>, <<1, 20, "Court 2">>, <<2, 19, "Court 1">>}, c \in {<<0, 1>>, <<1, 1>>, <<1, 2>>}}

\* Pages of up to MaxSlots containers with at most one container per label.
RECURSIVE PagesUpTo(_)
PagesUpTo(n) ==
    IF n = 0
    THEN {<<>>}
    ELSE LET shorter == PagesUpTo(n - 1)
         IN  shorter \cup
             {Append(page, c) : page \in shorter, c \in SlotInputs}

DistinctLabels(page) == \A i, j \in 1..Len(page) : page[i].slot_text = page[j].slot_text => i = j

SelectionInputs ==
    {[avail |-> page, time_primary |-> tp, time_fallback |-> tf] :
        page \in {q \in PagesUpTo(MaxSlots) : DistinctLabels(q)},
        tp \in {"7pm", "19:00"}, tf \in {NULL, "", "8pm", "7pm"}}

InitSelect ==
    /\ Constructed
    /\ arg \in {<<i>> : i \in SelectionInputs}
    /\ ret = <<>>

SelectSlot ==
    /\ ret = <<>>
    /\ ret' = <<try_time_slots(arg[1].avail, 1, arg[1].time_primary,
                               arg[1].time_fallback)>>
    /\ UNCHANGED <<Program, arg>>

SpecSelect == InitSelect /\ [][SelectSlot]_vars

\* The same with every page of up to MaxSlots containers, those that show a
\* label more than once included.
InitSelectAny ==
    /\ Constructed
    /\ arg \in {<<[avail |-> page, time_primary |-> "7pm", time_fallback |-> tf]>> :
                  page \in PagesUpTo(MaxSlots), tf \in {NULL, "8pm"}}
    /\ ret = <<>>

SpecSelectAny == InitSelectAny /\ [][SelectSlot]_vars

\* Intake: the two ways a Booking is created through the API, the direct
\* create, and cancel and delete, with dates, options and files drawn from
\* sets that hold invalid values too.
\* Dates of the import: the days whose execution time is in the model's time.
CsvDays == {d + 14 : d \in Days}

Book == <<"B", "o", "o", "k">>

CsvLines ==
    {<<d, "7pm", "8pm", Book>> : d \in CsvDays}
    \cup {<<15, "7pm", " 8pm", <<" ", "B", "O", "O", "K">>>>,
          <<15, "19:00", "", Book>>,
          <<-1, "7pm", "8pm", Book>>,
          <<15, "7pm", "8pm", <<"S", "k", "i", "p">>>>,
          <<>>,
          <<15, "7pm", "8pm">>,
          <<15, "7pm", "8pm", Book, "x">>}

RECURSIVE CsvFilesUpTo(_)
CsvFilesUpTo(n) ==
    IF n = 0
    THEN {<<>>}
    ELSE LET shorter == CsvFilesUpTo(n - 1)
         IN  shorter \cup {Append(f, l) : f \in shorter, l \in CsvLines}

CsvFiles == CsvFilesUpTo(MaxRows)

Options == {"7pm", "19:00"}

Fallbacks == {NULL, "", "8pm", "19:00"}

NextImport ==
    \/ \E content \in CsvFiles : AddBookingsFromCsv(content)
    \/ \E day \in Days, tp \in Options, tf \in Fallbacks : ApiCreateBooking(day, tp, tf)
    \/ \E day \in Days, tp \in Options, tf \in Fallbacks : CreateBooking(day, tp, tf)
    \/ \E id \in Ids : ApiCancelBooking(id)
    \/ \E id \in Ids : ApiDeleteBooking(id)
    \/ Tick

SpecImport == Init /\ [][NextImport]_vars

\* Database.create_booking called directly with and without a fallback,
\* cancel and delete, over process restarts and loss of the SQLite file.
NextCreate ==
    \/ \E day \in Days, tf \in {NULL, "8pm"} : CreateBooking(day, "7pm", tf)
    \/ \E id \in Ids : ApiCancelBooking(id)
    \/ \E id \in Ids : ApiDeleteBooking(id)
    \/ \E lose \in BOOLEAN : Shutdown(lose)
    \/ Startup
    \/ Tick

SpecCreate == Init /\ [][NextCreate]_vars

TypeOK ==
    /\ now \in Times
    /\ running \in BOOLEAN
    /\ DOMAIN rows \subseteq Ids
    /\ \A id \in DOMAIN rows : rows[id].status \in NonTerminal \cup Terminal
    /\ nextId \in 1..(MaxId + 1)
    /\ DOMAIN docs \subseteq Ids
    /\ queue \subseteq Ids
    /\ jobs \subseteq Ids \X Times
    /\ DOMAIN attempts \subseteq Ids

(***************************************************************************)
(* Properties                                                              *)
(***************************************************************************)
JobsOf(js, id) == {j \in js : j[1] = id}

StartupStep == ~running /\ running'

Kept(id) == id \in DOMAIN rows /\ id \in DOMAIN rows'

\* C1: a Booking created and scheduled before a shutdown is never lost: once
\* the process is up again its row is back in the relational store, and a
\* non-terminal Booking whose instant has passed has a timer or an attempt
\* under way, so it cannot stay scheduled for ever.
C1_NoSilentLoss ==
    running => \A id \in Ids :
        /\ id \in lost => id \in DOMAIN rows
        /\ ( /\ id \in DOMAIN rows
             /\ rows[id].status \in NonTerminal
             /\ rows[id].execute_at < now )
           => (JobsOf(jobs, id) # {} \/ IsPending(id))

\* C2: at startup a Booking that is scheduled with execute_at in the past
\* and exists only in the mirror (document and id in the pending set) is
\* hydrated under its id and finalized failed with a reason; no attempt is
\* started for it.
C2_RecoveryScenario ==
    [][StartupStep => \A id \in queue :
          ( /\ id \in DOMAIN docs
            /\ docs[id].status = "scheduled"
            /\ docs[id].execute_at < now'
            /\ id \notin DOMAIN rows )
          => ( /\ id \in DOMAIN rows'
               /\ rows'[id].status = "failed"
               /\ rows'[id].error_message # NULL
               /\ id \notin DOMAIN attempts' )]_vars

\* C3: after the startup recovery every Booking that was pending or
\* scheduled with execute_at not in the past, in the relational store or
\* only in the mirror, has exactly one timer and status scheduled.
C3_RecoveryRearms ==
    [][StartupStep => \A id \in Ids :
          LET known == /\ id \in DOMAIN rows
                       /\ rows[id].status \in NonTerminal
                       /\ rows[id].execute_at >= now'
              mirrored == /\ id \notin DOMAIN rows
                          /\ id \in queue
                          /\ id \in DOMAIN docs
                          /\ docs[id].status \in NonTerminal
                          /\ docs[id].execute_at >= now'
          IN  (known \/ mirrored)
              => ( /\ Cardinality(JobsOf(jobs', id)) = 1
                   /\ id \in DOMAIN rows'
                   /\ rows'[id].status = "scheduled" )]_vars

\* C4: no operation, a schedule call included, takes a Booking's status from
\* booked, failed or cancelled back to pending or scheduled.
C4_Monotonic ==
    [][\A id \in Ids :
          (Kept(id) /\ rows[id].status \in Terminal)
          => rows'[id].status \notin NonTerminal]_vars

\* C5: once a Booking is booked, failed or cancelled its status value never
\* changes again while the Booking exists.
C5_TerminalAbsorbing ==
    [][\A id \in Ids :
          (Kept(id) /\ rows[id].status \in Terminal)
          => rows'[id].status = rows[id].status]_vars

\* C6: the only status change out of pending is to scheduled, and the only
\* changes out of scheduled are to booked, failed or cancelled.
C6_TransitionTable ==
    [][\A id \in Ids : Kept(id) =>
          /\ rows[id].status = "pending"
             => rows'[id].status \in {"pending", "scheduled"}
          /\ rows[id].status = "scheduled"
             => rows'[id].status \in {"scheduled", "booked", "failed", "cancelled"}]_vars

\* C7: schedule is idempotent: in every reachable state no id has two
\* timers, and for every existing Booking a schedule call leaves exactly the
\* timer of that call, a second call with the same time changes nothing
\* more, and a call with another time leaves only the later timer.
C7_ScheduleIdempotent ==
    \A id \in Ids :
        /\ Cardinality(JobsOf(jobs, id)) <= 1
        /\ id \in DOMAIN rows => \A t \in Times :
              LET once == schedule_booking(S, id, t)
              IN  /\ get_job(once, id) = {<<id, t>>}
                  /\ schedule_booking(once, id, t) = once
                  /\ \A u \in Times :
                        get_job(schedule_booking(once, id, u), id) = {<<id, u>>}

\* C7 witness: a direct schedule call has replaced the timer of a Booking by
\* one at another instant than its execute_at.
C7_Witness ==
    \E id \in DOMAIN rows : \E j \in JobsOf(jobs, id) :
        j[2] # rows[id].execute_at

C9_CancelScenario ==
    [][\A id \in Ids :
          /\ ( /\ ApiCancelBooking(id)
               /\ id \in DOMAIN rows
               /\ rows[id].status = "scheduled"
               /\ JobsOf(jobs, id) # {} )
             => ( /\ id \in DOMAIN rows'
                  /\ rows'[id].status = "cancelled"
                  /\ JobsOf(jobs', id) = {} )
          /\ ( /\ id \in DOMAIN rows
               /\ rows[id].status = "cancelled"
               /\ ~IsPending(id) )
             => ( /\ JobsOf(jobs', id) = {}
                  /\ id \notin DOMAIN attempts'
                  /\ id \in DOMAIN rows' => rows'[id].status = "cancelled"
                  /\ id \notin DOMAIN rows' => (ApiDeleteBooking(id) \/ ~running') )]_vars

\* C9 witness: a Booking cancelled before its timer fired is still there
\* after its instant, in a running process, with no attempt ever
\* started for it.
C9_Witness ==
    \E id \in DOMAIN rows :
        /\ rows[id].status = "cancelled"
        /\ id \notin logs
        /\ rows[id].execute_at < now
        /\ running

MirroredFields == {"status", "error_message", "court_name", "booked_time", "screenshot_path"}

\* C11: after every completed create or status update the mirror document of
\* a Booking equals its row on status, error_message, court_name,
\* booked_time and screenshot_path.
C11_WriteThrough ==
    \A id \in DOMAIN rows :
        /\ id \in DOMAIN docs
        /\ \A f \in MirroredFields : docs[id][f] = rows[id][f]

PendingSetExact == queue = {id \in DOMAIN rows : rows[id].status \in NonTerminal}

\* C12: every operation of the running program (create, status update,
\* cancel, delete) that starts with the pending set holding exactly the ids
\* of the pending and scheduled rows ends with it holding exactly those ids.
C12_PendingSet ==
    [][(running /\ running' /\ PendingSetExact) => PendingSetExact']_vars

\* C20: for every id without a row, GET, cancel and DELETE answer not found
\* and the cancel and the delete leave every store and the scheduler as
\* they are.
C20_NotFound ==
    \A id \in Ids \ DOMAIN rows :
        /\ get_booking_response(S, id) = 404
        /\ cancel_booking_response(S, id) = 404
        /\ cancel_booking(S, id) = S
        /\ delete_booking_response(S, id) = 404
        /\ delete_booking(S, id) = S

\* C15: for hour 1..12, minute 00..59 or none, and am or pm, the phrase
\* canonicalizes to HH:MM:00 with HH = 0 for 12am, 12 for 12pm, h for other
\* am and h + 12 for other pm, HH in 0..23; every other input (hour 0 or
\* above 12, a trailing character, no am/pm) is a parse error.
C15_Canonicalization ==
    ret # <<>> =>
        LET i == arg[1]
            HH == IF i.hour = 12 THEN (IF i.period = "am" THEN 0 ELSE 12)
                  ELSE IF i.period = "am" THEN i.hour ELSE i.hour + 12
            MM == IF i.minute < 0 THEN 0 ELSE i.minute
        IN  IF i.hour \in 1..12 /\ i.minute <= 59 /\ i.period # "" /\ i.trail = ""
            THEN ret[1] = <<HH, MM, 0>> /\ HH \in 0..23
            ELSE ret[1] = ValueError

\* The canonical time of an option, where it is a time phrase.
CanonicalOf(option) ==
    CASE option = "7pm" -> <<19, 0, 0>>
      [] option = "8pm" -> <<20, 0, 0>>
      [] OTHER -> <<>>

\* A container for the option on the Booking date exists and is not full.
Bookable(avail, option) ==
    /\ CanonicalOf(option) # <<>>
    /\ \E i \in 1..Len(avail) :
          /\ avail[i].slot_text = <<1>> \o CanonicalOf(option)
          /\ avail[i].total_booked < avail[i].total_slots

\* C14: on a page with at most one container per label the primary option is
\* selected iff its container exists and is not full; otherwise the fallback,
\* if there is one, iff its container exists and is not full; otherwise the
\* result is unavailable.  The recorded option is the selected one.
C14_SlotSelection ==
    ret # <<>> =>
        LET i == arg[1]
            r == ret[1]
        IN  IF Bookable(i.avail, i.time_primary)
            THEN r.success /\ r.booked_time = i.time_primary
            ELSE IF i.time_fallback \notin {NULL, ""} /\ Bookable(i.avail, i.time_fallback)
            THEN r.success /\ r.booked_time = i.time_fallback
            ELSE ~r.success

\* C14 witness: 19:00 is full 1/1 and 20:00 is free 0/1; with primary 7pm and
\* fallback 8pm the 20:00 container was selected.
C14_Witness ==
    /\ ret # <<>>
    /\ arg[1].avail = <<Slot(1, 19, 0, "Court 1", 1, 1), Slot(1, 20, 0, "Court 2", 0, 1)>>
    /\ arg[1].time_primary = "7pm"
    /\ arg[1].time_fallback = "8pm"
    /\ ret[1] = [success |-> TRUE, court_name |-> "Court 2", booked_time |-> "8pm"]

\* The instant lead days before the date at 24:00 minus the offset.
ExecuteAtOf(date, lead, offset) ==
    IF offset = 0
    THEN <<date - lead + 1, 0, 0>>
    ELSE <<date - lead, (1440 - offset) \div 60, (1440 - offset) % 60>>

Before(a, b) ==
    \/ a[1] < b[1]
    \/ a[1] = b[1] /\ a[2] < b[2]
    \/ a[1] = b[1] /\ a[2] = b[2] /\ a[3] < b[3]

\* C17: for every valid date and every configured offset the execution time
\* is the date minus the lead days (15 for the import, 1 for POST /bookings)
\* at 24:00 minus the offset, and is strictly before the date.
C17_ExecuteAt ==
    ret # <<>> =>
        LET i == arg[1]
            lead == IF i.path = "import" THEN 15 ELSE 1
        IN  /\ ret[1] = ExecuteAtOf(i.date, lead, i.offset)
            /\ Before(ret[1], <<i.date, 0, 0>>)

\* C13: in every state, create_booking with any date, primary option and
\* fallback (None included) returns an id under which the row and the mirror
\* document both hold exactly that date and those options, with status
\* pending.
C13_RoundTrip ==
    \A day \in Days, tp \in Options, tf \in Fallbacks, execute_at \in Times :
        LET created == create_booking(S, day, tp, tf, execute_at)
            row == created.rows[nextId]
            doc == created.docs[nextId]
        IN  /\ row.booking_date = day /\ doc.booking_date = day
            /\ row.time_primary = tp /\ doc.time_primary = tp
            /\ row.time_fallback = tf /\ doc.time_fallback = tf
            /\ row.status = "pending" /\ doc.status = "pending"

\* C13 witness: a Booking created without fallback is pending, and its row
\* and its document agree on every field.
C13_Witness ==
    \E id \in DOMAIN rows :
        /\ rows[id].status = "pending"
        /\ rows[id].time_fallback = NULL
        /\ id \in DOMAIN docs
        /\ docs[id] = rows[id]

\* A str is a time phrase the parser accepts.
Parseable(str) == parse_time_to_24hr(chars(str)) # ValueError

\* C16: no Booking with an option that is not a time phrase is ever created,
\* in the relational store or in the mirror, through POST /bookings or the
\* import.
C16_RejectMalformed ==
    /\ \A id \in DOMAIN rows :
          /\ Parseable(rows[id].time_primary)
          /\ rows[id].time_fallback \in {NULL, ""} \/ Parseable(rows[id].time_fallback)
    /\ \A id \in DOMAIN docs :
          /\ Parseable(docs[id].time_primary)
          /\ docs[id].time_fallback \in {NULL, ""} \/ Parseable(docs[id].time_fallback)

\* The file with the single row {2026-02-15, 7pm, 8pm, Book}; day 0 is
\* 2026-01-31, so 2026-02-15 is day 15 and 2026-02-01T23:50 is <<1, 23, 50>>.
SingleRow == <<<<15, "7pm", "8pm", Book>>>>

\* C18: importing the single row while 2026-02-01T23:50 has not passed
\* creates exactly one Booking, scheduled, with execute_at at that instant
\* and one timer at that instant.
C18_ImportEndToEnd ==
    [][(AddBookingsFromCsv(SingleRow) /\ now <= Instant(ExecuteAtOf(15, 14, 10)))
       => ( /\ DOMAIN rows' = DOMAIN rows \cup {nextId}
            /\ nextId \notin DOMAIN rows
            /\ rows'[nextId].status = "scheduled"
            /\ rows'[nextId].execute_at = Instant(ExecuteAtOf(15, 14, 10))
            /\ JobsOf(jobs', nextId) = {<<nextId, Instant(ExecuteAtOf(15, 14, 10))>>} )]_vars

\* The rows of a file: its lines that are not empty.
RowsOf(content) == {i \in 1..Len(content) : content[i] # <<>>}

\* The directive of a row is "book", whatever the case.
Directed(line) == Len(line) >= 4 /\ lower(strip(line[4])) = <<"b", "o", "o", "k">>

\* C19: an import never fails as a whole; it creates no Booking for a row
\* whose directive is not "book", one Booking for each "book" row with a
\* valid date whose execution time has not passed, and its summary accounts
\* for every row.
C19_BulkImport ==
    [][\A content \in CsvFiles : AddBookingsFromCsv(content) =>
          LET r == ret'[1]
              due == {i \in RowsOf(content) :
                         /\ Directed(content[i])
                         /\ content[i][1] >= 0
                         /\ Instant(ExecuteAtOf(content[i][1], 15, pre_login_minutes)) >= now}
          IN  /\ ~r.raised
              /\ nextId' - nextId = Cardinality(due)
              /\ r.added = Cardinality(due)
              /\ r.added + r.skipped + r.errors = Cardinality(RowsOf(content))]_vars

\* C21: in every state, schedule_booking for an id without a Booking returns
\* the stores and the job store as they were: no timer, no status change, no
\* write to SQLite or Redis.
C21_ScheduleMissing ==
    \A id \in Ids \ DOMAIN rows, execution_time \in Times :
        schedule_booking(S, id, execution_time) = S

\* C21 witness: a running process in which an id has no Booking any more (its
\* row went with the SQLite file) while its document is still in Redis, and
\* a schedule call for it changes nothing.
C21_Witness ==
    \E id \in Ids \ DOMAIN rows :
        /\ running
        /\ id \in DOMAIN docs
        /\ docs[id].status = "scheduled"
        /\ schedule_booking(S, id, now) = S

\* C26: once an attempt has ended (its screenshot step included), a Booking
\* left failed carries a failure reason in the relational store, and a
\* Booking left booked carries none.
C26_ReasonRetained ==
    \A id \in DOMAIN rows :
        ~IsPending(id) =>
            /\ rows[id].status = "failed" => rows[id].error_message # NULL
            /\ rows[id].status = "booked" => rows[id].error_message = NULL

\* C29: every execution log entry belongs to a Booking that exists in the
\* relational store, whatever the order of delete_booking and the steps of
\* an attempt.
C29_LogsReferToBookings == logs \subseteq DOMAIN rows

\* The program counter of the attempt for id, "none" without an attempt.
PcOf(as, id) == IF id \in DOMAIN as THEN as[id].pc ELSE "none"

\* The order of the steps inside the try block of execute_booking, the refresh
\* and the slot selection being one step between "barrier" and "verify".
StepOrder ==
    {<<"none", "login">>, <<"login", "prepare">>, <<"prepare", "barrier">>,
     <<"barrier", "verify">>}

\* Where a step that fails, or the last step, leaves the attempt.
Aborted == {"shot", "error_shot", "none"}

\* C22: an attempt goes through login, prepare, barrier, refresh and slot
\* selection, verification in that order and skips none; a step that goes on
\* to the next one writes no status; a step that does not go on ends the
\* sequence (only the screenshot is left) and, unless it is a positive
\* verification, leaves the Booking failed.  So no slot is selected after a
\* failed login or prepare.
C22_StepOrder ==
    [][\A id \in Ids :
          PcOf(attempts', id) # PcOf(attempts, id) =>
              /\ \/ <<PcOf(attempts, id), PcOf(attempts', id)>> \in StepOrder
                 \/ PcOf(attempts, id) # "none" /\ PcOf(attempts', id) \in Aborted
              /\ <<PcOf(attempts, id), PcOf(attempts', id)>> \in StepOrder
                 => rows' = rows
              /\ ( /\ PcOf(attempts, id) \in {"login", "prepare", "barrier", "verify"}
                   /\ PcOf(attempts', id) \in Aborted
                   /\ running'
                   /\ id \in DOMAIN rows /\ id \in DOMAIN rows' )
                 => \/ rows'[id].status = "failed"
                    \/ /\ PcOf(attempts, id) = "verify"
                       /\ attempts'[id].confirmed
                       /\ rows'[id].status = "booked"]_vars

\* C22 witness: a step of the try block has failed, the Booking is failed
\* with the exception's text and only the screenshot of the except branch is
\* left to do.
C22_Witness ==
    \E id \in DOMAIN rows :
        /\ At(id, "error_shot")
        /\ rows[id].status = "failed"
        /\ rows[id].error_message = error_msg

\* The unlock instant of a Booking: the midnight its execute_at precedes.
Unlock(booking) == midnight(booking.execute_at)

\* C23: the refresh of an attempt is never made before the Booking's unlock
\* instant; an attempt that reaches the barrier before it waits for exactly
\* that instant, and one that reaches it at or after it does not wait.
C23_Barrier ==
    [][\A id \in DOMAIN rows :
          /\ (PcOf(attempts, id) = "barrier" /\ PcOf(attempts', id) \in {"verify", "shot", "error_shot"})
             => now >= Unlock(rows[id])
          /\ (PcOf(attempts, id) = "prepare" /\ PcOf(attempts', id) = "barrier")
             => attempts'[id].wake = (IF now < Unlock(rows[id]) THEN Unlock(rows[id]) ELSE now)]_vars

\* C24: when an attempt started by the timer ends, whatever failed or was
\* raised on the way (a status write of the attempt or of its error handlers
\* included), the Booking is booked or failed: no error leaves the callback
\* with the Booking still scheduled.  A Booking cancelled meanwhile is left
\* aside.
C24_AttemptTerminates ==
    [][\A id \in DOMAIN rows :
          ( /\ IsPending(id) /\ attempts[id].wrapped
            /\ id \notin DOMAIN attempts'
            /\ id \in DOMAIN rows'
            /\ rows'[id].status # "cancelled" )
          => rows'[id].status \in {"booked", "failed"}]_vars

\* C25: a verification step leaves the Booking booked only when the
\* confirmation was seen, and with no confirmation seen it leaves it failed
\* with the reason "Could not verify confirmation", in either configuration.
C25_BookedOnlyIfVerified ==
    [][\A id \in DOMAIN rows :
          ( /\ PcOf(attempts, id) = "verify" /\ PcOf(attempts', id) = "shot"
            /\ id \in DOMAIN rows' )
          => /\ rows'[id].status = "booked" => attempts'[id].confirmed
             /\ ~attempts'[id].confirmed =>
                   /\ rows'[id].status = "failed"
                   /\ rows'[id].error_message = "Could not verify confirmation"]_vars

\* C27: once an attempt has written booked, the steps it still has to do
\* (the screenshot and the status write that carries its path), even when
\* they raise, leave the Booking booked.
C27_BookedIsKept ==
    [][\A id \in DOMAIN rows :
          ( /\ PcOf(attempts, id) = "shot" /\ attempts[id].final = "booked"
            /\ rows[id].status = "booked"
            /\ PcOf(attempts', id) # "shot"
            /\ id \in DOMAIN rows' )
          => rows'[id].status = "booked"]_vars

\* C30: every step of an attempt that sends a notification, delivered or
\* not, leaves the Booking with the status the step decided (booked after a
\* success, failed after a failure), and the outcome of the delivery changes
\* nothing in the stores the step has written.
C30_DeliveryFailureIsSilent ==
    [][\A id \in Ids :
          ( /\ PcOf(attempts', id) # PcOf(attempts, id)
            /\ PcOf(attempts', id) \in {"shot", "error_shot"} )
          => /\ \A delivered \in BOOLEAN : send_message(S, id, delivered)' = S'
             /\ id \in DOMAIN rows' => rows'[id].status = attempts'[id].final]_vars

\* C30 witness: the step that writes booked and sends the success
\* notification has been taken, and the Booking is booked.
C30_Witness ==
    \E id \in DOMAIN rows :
        /\ At(id, "shot")
        /\ attempts[id].final = "booked"
        /\ rows[id].status = "booked"
        /\ id \in logs

\* The attempts that hold the shared browser session: from the login that
\* returned to the end of the verification.
InSession == {id \in DOMAIN attempts : attempts[id].pc \in {"prepare", "barrier", "verify"}}

\* C28: at most one attempt at a time is between getting the shared session
\* and the end of its verification.
C28_Serialized == Cardinality(InSession) <= 1

\* The first container for the option on the Booking date that is not full,
\* 0 when there is none.
FirstUsable(avail, option) ==
    LET usable == {i \in 1..Len(avail) :
                      /\ avail[i].slot_text = <<1>> \o CanonicalOf(option)
                      /\ avail[i].total_booked < avail[i].total_slots}
    IN  IF usable = {} THEN 0 ELSE SetMin(usable)

\* C32: on every page, pages with several containers for one label included,
\* the primary option is selected iff some container with its label is not
\* full, and the container selected is the first such one; a full container
\* is never selected.
C32_FirstUsableWins ==
    ret # <<>> =>
        LET i == arg[1]
            r == ret[1]
        IN  IF FirstUsable(i.avail, i.time_primary) # 0
            THEN /\ r.success
                 /\ r.booked_time = i.time_primary
                 /\ r.court_name = i.avail[FirstUsable(i.avail, i.time_primary)].court_name
            ELSE r.booked_time = i.time_primary => ~r.success

\* C31: when an attempt ends, it has called the notifier for at most one
\* outcome (none only when the error went to the callback's own handler),
\* and never for two; the kind is the one of the outcome: success iff the
\* Booking is left booked, failure or unavailable iff it is left failed; the
\* unavailable notification is the one of the step that found no option.  A
\* Booking cancelled or deleted meanwhile is left aside.
C31_OneNotification ==
    [][\A id \in DOMAIN rows :
          /\ ( /\ IsPending(id) /\ id \notin DOMAIN attempts' /\ running'
               /\ id \in DOMAIN rows' /\ rows'[id].status # "cancelled" )
             => /\ Len(attempts[id].sent) <= 1
                /\ Len(attempts[id].sent) = 1 =>
                      /\ attempts[id].sent[1] = "success" <=> rows'[id].status = "booked"
                      /\ attempts[id].sent[1] \in {"failure", "unavailable"}
                         <=> rows'[id].status = "failed"
          /\ ( /\ PcOf(attempts, id) = "barrier" /\ PcOf(attempts', id) = "shot" )
             <=> ( /\ PcOf(attempts', id) # PcOf(attempts, id)
                   /\ IsPending(id) /\ IsPending(id)'
                   /\ attempts'[id].sent = Append(attempts[id].sent, "unavailable") )]_vars

\* A step that hands out an id: the relational allocator or the counter key
\* advances.
Creates == nextId' > nextId \/ counter' > counter

\* C33: a create never takes an id that another Booking holds: it leaves
\* every document that is in the mirror as it was, whatever the interleaving
\* of POST /bookings and of inserts by the offline script.
C33_IdsUnique ==
    [][Creates => \A id \in DOMAIN docs : id \in DOMAIN docs' /\ docs'[id] = docs[id]]_vars

\* The fields of a Booking that are given at its creation.
Given(b) == <<b.booking_date, b.time_primary, b.time_fallback, b.execute_at>>

\* C34: no step other than a create changes the date, the options or the
\* execute_at of a Booking, in its row or in its mirror document: status
\* updates, cancels, attempts and the startup recovery write only the status
\* and the result fields.
C34_ExecuteAtImmutable ==
    [][~Creates =>
          /\ \A id \in DOMAIN rows \cap DOMAIN rows' : Given(rows'[id]) = Given(rows[id])
          /\ \A id \in DOMAIN docs \cap DOMAIN docs' : Given(docs'[id]) = Given(docs[id])]_vars

\* C34 witness: a Booking that was scheduled, attempted and booked still has
\* the execute_at it was created with, in both stores.
C34_Witness ==
    \E id \in DOMAIN rows \cap DOMAIN docs :
        /\ rows[id].status = "booked"
        /\ docs[id].status = "booked"
        /\ rows[id].execute_at = execute_dt(rows[id].booking_date)
        /\ docs[id].execute_at = execute_dt(docs[id].booking_date)

\* C35: in every state the timer registered for a Booking fires at the
\* Booking's stored execute_at.
C35_TimerAtExecuteAt ==
    \A j \in jobs : j[1] \in DOMAIN rows => j[2] = rows[j[1]].execute_at

\* C36: in every state every registered timer belongs to a Booking that
\* exists and is pending or scheduled.
C36_NoTimerForTerminal ==
    \A j \in jobs : j[1] \in DOMAIN rows /\ rows[j[1]].status \in NonTerminal

\* The Bookings that are pending or scheduled in stores s: rows of the
\* relational store and documents of the mirror.
Waiting(rs, ds) ==
    {id \in DOMAIN rs : rs[id].status \in NonTerminal}
    \cup {id \in DOMAIN ds : ds[id].status \in NonTerminal}

\* C37: when the startup recovery has run, every Booking that is pending or
\* scheduled, whichever way it was created, has a registered timer.
C37_TimerForEveryWaiting ==
    [][StartupStep => \A id \in Waiting(rows', docs') : JobsOf(jobs', id) # {}]_vars

\* C38: when the startup recovery has run, the pending set of the mirror
\* holds exactly the ids of the documents that are pending or scheduled: no
\* id of a terminal or missing document, and every id of a waiting one.
C38_PendingSetHealed ==
    [][StartupStep =>
          queue' = {id \in DOMAIN docs' : docs'[id].status \in NonTerminal}]_vars


\* C39: every intake path gives a Booking date the same execution time: the
\* time the import computes under the configured offset is the time POST
\* /bookings computes and the time the mirror script computes.
C39_IntakePathsAgree ==
    (ret # <<>> /\ arg[1].offset = pre_login_minutes) =>
        /\ ret[2] = execute_dt_at(arg[1].date)
        /\ ret[2] = offline_execute_dt_at(arg[1].date)
        /\ ret[2] = calculate_execution_time(arg[1].date, pre_login_minutes)


\* C40: for every time phrase made of an hour, optional minutes and am or
\* pm, the engine's parser and the calendar generator's parser either both
\* reject it or both accept it with the same hour and minute.
C40_ParsersAgree ==
    (ret # <<>> /\ arg[1].period # "" /\ arg[1].trail = "") =>
        IF ret[1] = ValueError \/ ret[2] = ValueError
        THEN ret[1] = ValueError /\ ret[2] = ValueError
        ELSE ret[1][1] = ret[2][2] /\ ret[1][2] = ret[2][3]

====
